---- MODULE Spec2Model ----
(***************************************************************************)
(* Model of local_run/webapp/app.py: the Trivy DB build monitor.           *)
(*                                                                         *)
(* The web application serves each HTTP request on its own thread, starts  *)
(* one daemon thread per accepted build (run_build_async) and shares with  *)
(* them the process-wide deque log_buffer, the durable file LOG_FILE and   *)
(* the lock file LOCK_FILE, which the external build script writes.  The   *)
(* handlers are split at their accesses to that shared state, so that the  *)
(* interleavings the code allows are the behaviours of the model.          *)
(***************************************************************************)
EXTENDS Integers, Sequences, FiniteSets, TLC

\* ------------------------------------------------------------------ bounds
\* MAX_LOG_LINES is 1000 in the source (app.py:25); the model scales it down.
MAX_LOG_LINES == 2
\* Number of builds (run_build_async threads) the model lets start.
MaxBuilds == 2
\* Number of output lines a build script may print.
MaxOut == 1
\* Number of times a script is launched outside the web application.
MaxExt == 1
\* Number of HTTP requests served in one behaviour.
MaxRequests == 2

SIGTERM == 15

Builds == 1..MaxBuilds
\* The pid of the child of build b is b; ExtPid is a script launched by hand.
ExtPid == MaxBuilds + 1
PIDs == 1..ExtPid
NoPid == 0
Reqs == {1, 2}
\* Exit codes of a script that ends by itself; -SIGTERM when a signal ends it.
ExitCodes == {0, 3}
\* Values of the 'lines' query parameter (request.args.get(..., type=int)).
LinesArgs == (0 - 1)..(MAX_LOG_LINES + 1)

VARIABLES
    marker,      \* LOCK_FILE: [kind, pid, owner]
    proc,        \* the process table: pid -> [owner, wrote, term]
    child,       \* the child of build b: [st, out, rc]
    thread,      \* the run_build_async threads: b -> [pc, read, rc, outcome]
    log_buffer,  \* the deque log_buffer
    log_file,    \* LOG_FILE: [exists, lines]
    hist,        \* history: every line appended since the last clear()
    req,         \* the request threads: r -> handler position and locals
    resp,        \* the response sent last, with what its handler probed and signalled
    nbuilds,     \* builds started so far
    nlaunch,     \* launches outside the web application so far
    nreq,        \* requests served so far
    art          \* OUTPUT_DIR: [db, tar, meta], the artifacts of the last build

vars == <<marker, proc, child, thread, log_buffer, log_file, hist,
          req, resp, nbuilds, nlaunch, nreq, art>>

\* ------------------------------------------------------------------ values
Line(k, b, n) == [kind |-> k, b |-> b, n |-> n]
NoMarker == [kind |-> "absent", pid |-> NoPid, owner |-> "none"]
NoProc == [owner |-> "none", wrote |-> FALSE, term |-> FALSE]
NoChild == [st |-> "none", out |-> 0, rc |-> 0]
NoThread == [pc |-> "unused", read |-> 0, rc |-> 0, outcome |-> "none"]
NoStatus == [status |-> "none", pid |-> NoPid, message |-> "none"]
\* get_db_info, lines 55-62: the info dictionary before the files are read.
NoInfo == [db_exists |-> FALSE, tar_exists |-> FALSE, db_size |-> FALSE,
           tar_size |-> FALSE, metadata |-> FALSE]
IdleReq == [op |-> "none", pc |-> "idle", st |-> NoStatus, lines |-> 0,
            logs |-> <<>>, nsig |-> 0, sigpid |-> NoPid, info |-> NoInfo]
NoResp == [op |-> "none", code |-> 0, msg |-> "none", rpid |-> NoPid,
           total |-> 0, probed |-> "none", nsig |-> 0, sigpid |-> NoPid]
\* A log file left by an earlier run of the server: one line of its build.
OldLogFile == [exists |-> TRUE, lines |-> <<Line("out", 0, 1)>>]
NoLogFile == [exists |-> FALSE, lines |-> <<>>]

Min(a, b) == IF a < b THEN a ELSE b
Max(a, b) == IF a > b THEN a ELSE b

\* --------------------------------------------------------- the system calls
\* os.kill(pid, sig): what the call does for the process table as it stands.
\* "ok": the signal is accepted; "ESRCH": ProcessLookupError, no such process;
\* "EPERM": PermissionError, the process belongs to another user.  Both
\* errors are subclasses of OSError.
os_kill(pid) ==
    IF pid \notin PIDs \/ proc[pid].owner = "none" THEN "ESRCH"
    ELSE IF proc[pid].owner = "foreign" THEN "EPERM"
    ELSE "ok"

\* Path.unlink() of a file in /tmp (sticky): FileNotFoundError when the file
\* is gone, PermissionError when another user owns it.
os_unlink(f) ==
    IF f.kind = "absent" THEN "ENOENT"
    ELSE IF f.owner = "foreign" THEN "EPERM"
    ELSE "ok"

\* ------------------------------------------------------- get_build_status
\* int(f.read().strip()) raises ValueError on content that is no integer.
\* The calls of one probe (exists, read, kill) are taken at one instant: the
\* probe is a function of LOCK_FILE and of the process table at that instant.
get_build_status(m) ==
    IF m.kind = "absent" THEN [status |-> "idle", pid |-> NoPid, message |-> "none"]
    ELSE IF m.kind # "pid" THEN [status |-> "error", pid |-> NoPid, message |-> "ValueError"]
    ELSE IF os_kill(m.pid) = "ok"
         THEN [status |-> "running", pid |-> m.pid, message |-> "none"]
         ELSE [status |-> "stale_lock", pid |-> m.pid, message |-> "none"]

\* ------------------------------------------------------------- log_buffer
\* Mutant: a full buffer drops its right end (pop() for popleft()).
MutAppendEvictsNewest(buf, x) ==
    IF Len(buf) >= MAX_LOG_LINES
    THEN Append(SubSeq(buf, 1, Len(buf) - 1), x) ELSE Append(buf, x)

\* deque(maxlen=MAX_LOG_LINES).append: a full deque drops its left end.
deque_append(buf, x) ==
    IF Len(buf) >= MAX_LOG_LINES THEN Append(Tail(buf), x) ELSE Append(buf, x)

\* Python's s[start:], with a negative start counted from the end.
py_slice_from(s, start) ==
    LET lo == IF start < 0 THEN Max(Len(s) + start, 0) ELSE Min(start, Len(s))
    IN  SubSeq(s, lo + 1, Len(s))

\* api_logs, lines 157-159: cap the request, then list(log_buffer)[-lines:].
recent_logs(buf, lines) ==
    LET capped == Min(lines, MAX_LOG_LINES)
    IN  IF buf # <<>> THEN py_slice_from(buf, 0 - capped) ELSE <<>>

\* api_logs, lines 162-166: f.readlines()[-lines:] of the durable file.
file_tail(f, lines) ==
    py_slice_from(f.lines, 0 - Min(lines, MAX_LOG_LINES))

\* -------------------------------------------------------------------- Init
Init ==
    /\ marker = NoMarker
    /\ proc = [p \in PIDs |-> NoProc]
    /\ child = [b \in Builds |-> NoChild]
    /\ thread = [b \in Builds |-> NoThread]
    /\ log_buffer = <<>>
    /\ log_file = OldLogFile
    /\ hist = <<>>
    /\ req = [r \in Reqs |-> IdleReq]
    /\ resp = NoResp
    /\ nbuilds = 0
    /\ nlaunch = 0
    /\ nreq = 0
    /\ art = [db |-> TRUE, tar |-> TRUE, meta |-> "json"]

\* ------------------------------------------------- the scripts (environment)
\* The build script is not part of the web application.  What the model
\* takes from it is what the operating system lets any such process do:
\* print lines, write LOCK_FILE (its pid, or content that is no integer,
\* such as the empty file between creation and write), exit with a code and
\* remove its own LOCK_FILE or leave it behind.

\* A script launched by hand or by cron under another user.  It gets a pid
\* no process has (a new one, or the pid of a child that has exited) and
\* takes the lock when there is none.
ExtLaunch(p) ==
    /\ nlaunch < MaxExt
    /\ proc[p].owner = "none"
    /\ p \in Builds => child[p].st = "exited"
    /\ proc' = [proc EXCEPT ![p] = [owner |-> "foreign", wrote |-> TRUE, term |-> FALSE]]
    /\ marker' = IF marker.kind = "absent"
                 THEN [kind |-> "pid", pid |-> p, owner |-> "foreign"] ELSE marker
    /\ nlaunch' = nlaunch + 1
    /\ UNCHANGED <<child, thread, log_buffer, log_file, hist, req, resp, nbuilds, nreq, art>>

\* The child of a build writes LOCK_FILE.
ScriptWriteMarker(p, kind) ==
    /\ proc[p].owner = "own"
    /\ ~proc[p].wrote
    /\ marker.kind = "absent" \/ marker.owner = "own"
    /\ marker' = [kind |-> kind, pid |-> p, owner |-> proc[p].owner]
    /\ proc' = [proc EXCEPT ![p].wrote = TRUE]
    /\ UNCHANGED <<child, thread, log_buffer, log_file, hist, req, resp, nbuilds, nlaunch, nreq, art>>

ChildEmit(b) ==
    /\ child[b].st = "alive"
    /\ child[b].out < MaxOut
    /\ child' = [child EXCEPT ![b].out = @ + 1]
    /\ UNCHANGED <<marker, proc, thread, log_buffer, log_file, hist, req, resp, nbuilds, nlaunch, nreq, art>>

ScriptExit(p, rc, cleanup) ==
    /\ proc[p].owner # "none"
    /\ rc \in ExitCodes \/ (proc[p].term /\ rc = 0 - SIGTERM)
    /\ proc' = [proc EXCEPT ![p] = NoProc]
    /\ child' = IF proc[p].owner = "own"
                THEN [child EXCEPT ![p].st = "exited", ![p].rc = rc] ELSE child
    /\ marker' = IF cleanup /\ marker.kind # "absent" /\ marker.pid = p
                 THEN NoMarker ELSE marker
    /\ UNCHANGED <<thread, log_buffer, log_file, hist, req, resp, nbuilds, nlaunch, nreq, art>>

\* ------------------------------------------------------- run_build_async
\* The timestamp of a marker line is not modelled; the line carries the
\* build that wrote it instead.
LogAppend(x) ==
    /\ log_buffer' = deque_append(log_buffer, x)
    /\ hist' = Append(hist, x)

\* line 97: log_buffer.clear()
T_Clear(b) ==
    /\ thread[b].pc = "clear"
    /\ log_buffer' = <<>>
    /\ hist' = <<>>
    /\ thread' = [thread EXCEPT ![b].pc = "start"]
    /\ UNCHANGED <<marker, proc, child, log_file, req, resp, nbuilds, nlaunch, nreq, art>>

\* line 98: the start marker
T_StartMarker(b) ==
    /\ thread[b].pc = "start"
    /\ LogAppend(Line("start", b, 0))
    /\ thread' = [thread EXCEPT ![b].pc = "popen"]
    /\ UNCHANGED <<marker, proc, child, log_file, req, resp, nbuilds, nlaunch, nreq, art>>

\* lines 102-109: subprocess.Popen; it raises when the script cannot be run.
T_Popen(b, ok) ==
    /\ thread[b].pc = "popen"
    /\ IF ok
       THEN /\ proc' = [proc EXCEPT ![b] = [owner |-> "own", wrote |-> FALSE, term |-> FALSE]]
            /\ child' = [child EXCEPT ![b].st = "alive"]
            /\ thread' = [thread EXCEPT ![b].pc = "stream"]
       ELSE /\ proc' = proc
            /\ child' = child
            /\ thread' = [thread EXCEPT ![b].pc = "except"]
    /\ UNCHANGED <<marker, log_buffer, log_file, hist, req, resp, nbuilds, nlaunch, nreq, art>>

\* lines 112-114: readline returns the next line; it goes to the buffer.
T_ReadLine(b) ==
    /\ thread[b].pc = "stream"
    /\ thread[b].read < child[b].out
    /\ LogAppend(Line("out", b, thread[b].read + 1))
    /\ thread' = [thread EXCEPT ![b].pc = "write", ![b].read = @ + 1]
    /\ UNCHANGED <<marker, proc, child, log_file, req, resp, nbuilds, nlaunch, nreq, art>>

\* lines 116-117: open(LOG_FILE, 'a') and write; an OSError leaves the loop.
T_WriteFile(b, ok) ==
    /\ thread[b].pc = "write"
    /\ IF ok
       THEN /\ log_file' = [exists |-> TRUE,
                            lines |-> Append(log_file.lines, Line("out", b, thread[b].read))]
            /\ thread' = [thread EXCEPT ![b].pc = "stream"]
       ELSE /\ log_file' = log_file
            /\ thread' = [thread EXCEPT ![b].pc = "except"]
    /\ UNCHANGED <<marker, proc, child, log_buffer, hist, req, resp, nbuilds, nlaunch, nreq, art>>

\* lines 112, 119: readline returns '' at end of file, process.wait() returns.
T_Wait(b) ==
    /\ thread[b].pc = "stream"
    /\ thread[b].read = child[b].out
    /\ child[b].st = "exited"
    /\ thread' = [thread EXCEPT ![b].pc = "final", ![b].rc = child[b].rc]
    /\ UNCHANGED <<marker, proc, child, log_buffer, log_file, hist, req, resp, nbuilds, nlaunch, nreq, art>>

\* Mutant: the completion marker reports success whatever the child returned.
MutCompletionAlwaysOk(b, rc) == Line("ok", b, 0)

\* lines 121-124: the completion marker
completion_line(b, rc) ==
    IF rc = 0 THEN Line("ok", b, 0) ELSE Line("fail", b, rc)

\* Mutant: the thread removes the lock of its child with the completion marker.
MutFinalRemovesMarker(b) ==
    /\ thread[b].pc = "final"
    /\ LogAppend(completion_line(b, thread[b].rc))
    /\ thread' = [thread EXCEPT ![b].pc = "done", ![b].outcome = "completed"]
    /\ marker' = IF marker.kind = "pid" /\ marker.pid = b THEN NoMarker ELSE marker
    /\ UNCHANGED <<proc, child, log_file, req, resp, nbuilds, nlaunch, nreq, art>>

T_Final(b) ==
    /\ thread[b].pc = "final"
    /\ LogAppend(completion_line(b, thread[b].rc))
    /\ thread' = [thread EXCEPT ![b].pc = "done", ![b].outcome = "completed"]
    /\ UNCHANGED <<marker, proc, child, log_file, req, resp, nbuilds, nlaunch, nreq, art>>

\* Mutant: after the error marker the thread goes on to the completion marker.
MutExceptThenCompletes(b) ==
    /\ thread[b].pc = "except"
    /\ LogAppend(Line("error", b, 0))
    /\ thread' = [thread EXCEPT ![b].pc = "final", ![b].outcome = "error"]
    /\ UNCHANGED <<marker, proc, child, log_file, req, resp, nbuilds, nlaunch, nreq, art>>

\* lines 126-127: the error marker
T_Except(b) ==
    /\ thread[b].pc = "except"
    /\ LogAppend(Line("error", b, 0))
    /\ thread' = [thread EXCEPT ![b].pc = "done", ![b].outcome = "error"]
    /\ UNCHANGED <<marker, proc, child, log_file, req, resp, nbuilds, nlaunch, nreq, art>>

\* ---------------------------------------------------------- the handlers
Free(r) == req[r].pc = "idle"

\* A new request is served by the first free thread of the pool.
Takes(r) == Free(r) /\ \A q \in Reqs : q < r => ~Free(q)

Begin(op, st) == [IdleReq EXCEPT !.op = op, !.st = st]

\* The handler of thread r goes on, with locals q.
Goto(r, q, pc) ==
    /\ req' = [req EXCEPT ![r] = [q EXCEPT !.pc = pc]]
    /\ resp' = resp

\* return jsonify(...), code: the thread is free again.
Return(r, q, code, msg, rpid, total) ==
    /\ req' = [req EXCEPT ![r] = IdleReq]
    /\ resp' = [op |-> q.op, code |-> code, msg |-> msg, rpid |-> rpid,
                total |-> total, probed |-> q.st.status,
                nsig |-> q.nsig, sigpid |-> q.sigpid]

\* Accepted builds that have not reached thread.start() yet.
Starting == {q \in Reqs : req[q].op = "build"}

\* Mutant: the check for a stale lock (line 189) is missing.
MutBuildRefusedRunningOnly(st) == st.status = "running"

\* api_build, lines 182 and 189: the states in which a build is refused.
build_refused(st) == st.status \in {"running", "stale_lock"}

\* api_build, lines 180-194: probe, and refuse with 409 and the pid.
B_Probe(r) ==
    /\ Takes(r)
    /\ nreq < MaxRequests
    /\ build_refused(get_build_status(marker))
       \/ nbuilds + Cardinality(Starting) < MaxBuilds
    /\ nreq' = nreq + 1
    /\ LET st == get_build_status(marker)
           q == Begin("build", st)
       IN  IF build_refused(st)
           THEN Return(r, q, 409, IF st.status = "running" THEN "already_running"
                                  ELSE "stale_lock", st.pid, 0)
           ELSE Goto(r, q, "exists")
    /\ UNCHANGED <<marker, proc, child, thread, log_buffer, log_file, hist, nbuilds, nlaunch, art>>

\* line 197: LOG_FILE.exists()
B_Exists(r) ==
    /\ req[r].op = "build" /\ req[r].pc = "exists"
    /\ Goto(r, req[r], IF log_file.exists THEN "unlink" ELSE "spawn")
    /\ UNCHANGED <<marker, proc, child, thread, log_buffer, log_file, hist, nbuilds, nlaunch, nreq, art>>

\* line 198: LOG_FILE.unlink(); FileNotFoundError is not caught (a 500).
B_Unlink(r) ==
    /\ req[r].op = "build" /\ req[r].pc = "unlink"
    /\ IF log_file.exists
       THEN /\ log_file' = NoLogFile
            /\ Goto(r, req[r], "spawn")
       ELSE /\ log_file' = log_file
            /\ Return(r, req[r], 500, "unhandled", NoPid, 0)
    /\ UNCHANGED <<marker, proc, child, thread, log_buffer, hist, nbuilds, nlaunch, nreq, art>>

\* lines 201-207: start the thread, answer 200.
B_Spawn(r) ==
    /\ req[r].op = "build" /\ req[r].pc = "spawn"
    /\ thread' = [thread EXCEPT ![nbuilds + 1].pc = "clear"]
    /\ nbuilds' = nbuilds + 1
    /\ Return(r, req[r], 200, "started", NoPid, 0)
    /\ UNCHANGED <<marker, proc, child, log_buffer, log_file, hist, nlaunch, nreq, art>>

\* Mutant: the handler refuses only when there is no lock at all.
MutStopRefusedIdleOnly(st) == st.status = "idle"

\* api_stop_build, line 215: the states in which no signal is sent.
stop_refused(st) == st.status # "running"

\* api_stop_build, lines 213-219
S_Probe(r) ==
    /\ Takes(r)
    /\ nreq < MaxRequests
    /\ nreq' = nreq + 1
    /\ LET st == get_build_status(marker)
           q == Begin("stop", st)
       IN  IF stop_refused(st)
           THEN Return(r, q, 409, "no_build_running", NoPid, 0)
           ELSE Goto(r, q, "kill")
    /\ UNCHANGED <<marker, proc, child, thread, log_buffer, log_file, hist, nbuilds, nlaunch, art>>

\* Mutant: the stop line is appended before os.kill, whatever it raises.
MutKillAfterAppend(r) ==
    /\ req[r].op = "stop" /\ req[r].pc = "kill"
    /\ LogAppend(Line("stop", 0, req[r].st.pid))
    /\ LET pid == req[r].st.pid
           q == [req[r] EXCEPT !.nsig = @ + 1, !.sigpid = pid]
       IN  CASE os_kill(pid) = "ok" ->
                  /\ proc' = [proc EXCEPT ![pid].term = TRUE]
                  /\ Return(r, q, 200, "stop_sent", NoPid, 0)
             [] os_kill(pid) = "ESRCH" ->
                  /\ proc' = proc
                  /\ Return(r, q, 404, "not_found", NoPid, 0)
             [] os_kill(pid) = "EPERM" ->
                  /\ proc' = proc
                  /\ Return(r, q, 500, "failed_to_stop", NoPid, 0)
    /\ UNCHANGED <<marker, child, thread, log_file, nbuilds, nlaunch, nreq, art>>

\* line 224: os.kill(pid, 15), and the two except clauses (231, 236).
S_Kill(r) ==
    /\ req[r].op = "stop" /\ req[r].pc = "kill"
    /\ LET pid == req[r].st.pid
           q == [req[r] EXCEPT !.nsig = @ + 1, !.sigpid = pid]
       IN  CASE os_kill(pid) = "ok" ->
                  /\ proc' = [proc EXCEPT ![pid].term = TRUE]
                  /\ Goto(r, q, "append")
             [] os_kill(pid) = "ESRCH" ->
                  /\ proc' = proc
                  /\ Return(r, q, 404, "not_found", NoPid, 0)
             [] os_kill(pid) = "EPERM" ->
                  /\ proc' = proc
                  /\ Return(r, q, 500, "failed_to_stop", NoPid, 0)
    /\ UNCHANGED <<marker, child, thread, log_buffer, log_file, hist, nbuilds, nlaunch, nreq, art>>

\* lines 225-230: the stop line, then 200.
S_Append(r) ==
    /\ req[r].op = "stop" /\ req[r].pc = "append"
    /\ LogAppend(Line("stop", 0, req[r].st.pid))
    /\ Return(r, req[r], 200, "stop_sent", NoPid, 0)
    /\ UNCHANGED <<marker, proc, child, thread, log_file, nbuilds, nlaunch, nreq, art>>

\* Mutant: the check for a running build (line 286) is missing.
MutClearNeverRefused(st) == FALSE

\* api_clear_lock, line 286: the state in which the lock is kept.
clear_refused(st) == st.status = "running"

\* api_clear_lock, lines 284-290
C_Probe(r) ==
    /\ Takes(r)
    /\ nreq < MaxRequests
    /\ nreq' = nreq + 1
    /\ LET st == get_build_status(marker)
           q == Begin("clear", st)
       IN  IF clear_refused(st)
           THEN Return(r, q, 409, "build_running", NoPid, 0)
           ELSE Goto(r, q, "exists")
    /\ UNCHANGED <<marker, proc, child, thread, log_buffer, log_file, hist, nbuilds, nlaunch, art>>

\* lines 292 and 305-308
C_Exists(r) ==
    /\ req[r].op = "clear" /\ req[r].pc = "exists"
    /\ IF marker.kind # "absent"
       THEN Goto(r, req[r], "unlink")
       ELSE Return(r, req[r], 200, "no_lock", NoPid, 0)
    /\ UNCHANGED <<marker, proc, child, thread, log_buffer, log_file, hist, nbuilds, nlaunch, nreq, art>>

\* lines 293-303: LOCK_FILE.unlink(), 200, or 500 when it raises.
C_Unlink(r) ==
    /\ req[r].op = "clear" /\ req[r].pc = "unlink"
    /\ IF os_unlink(marker) = "ok"
       THEN /\ marker' = NoMarker
            /\ Return(r, req[r], 200, "cleared", NoPid, 0)
       ELSE /\ marker' = marker
            /\ Return(r, req[r], 500, "failed_to_clear", NoPid, 0)
    /\ UNCHANGED <<proc, child, thread, log_buffer, log_file, hist, nbuilds, nlaunch, nreq, art>>

\* api_logs, lines 156-159
L_Snapshot(r, lines) ==
    /\ Takes(r)
    /\ nreq < MaxRequests
    /\ nreq' = nreq + 1
    /\ LET q == [Begin("logs", NoStatus) EXCEPT
                    !.lines = lines, !.logs = recent_logs(log_buffer, lines)]
       IN  Goto(r, q, IF q.logs = <<>> THEN "file" ELSE "total")
    /\ UNCHANGED <<marker, proc, child, thread, log_buffer, log_file, hist, nbuilds, nlaunch, art>>

\* lines 162-168: the tail of LOG_FILE if it exists; when open or readlines
\* raises (ok is FALSE) the exception is passed over and the list stays empty.
L_File(r, ok) ==
    /\ req[r].op = "logs" /\ req[r].pc = "file"
    /\ Goto(r, [req[r] EXCEPT !.logs = IF log_file.exists /\ ok
                                        THEN file_tail(log_file, req[r].lines)
                                        ELSE <<>>], "total")
    /\ UNCHANGED <<marker, proc, child, thread, log_buffer, log_file, hist, nbuilds, nlaunch, nreq, art>>

\* lines 170-174
L_Total(r) ==
    /\ req[r].op = "logs" /\ req[r].pc = "total"
    /\ Return(r, req[r], 200, "logs", NoPid, Len(log_buffer))
    /\ UNCHANGED <<marker, proc, child, thread, log_buffer, log_file, hist, nbuilds, nlaunch, nreq, art>>

\* api_status, line 139
St_Probe(r) ==
    /\ Takes(r)
    /\ nreq < MaxRequests
    /\ nreq' = nreq + 1
    /\ Goto(r, Begin("status", get_build_status(marker)), "info_db")
    /\ UNCHANGED <<marker, proc, child, thread, log_buffer, log_file, hist, nbuilds, nlaunch, art>>

\* get_db_info, lines 55-62: db_file.exists(), then db_tar.exists()
St_InfoDb(r) ==
    /\ req[r].op = "status" /\ req[r].pc = "info_db"
    /\ Goto(r, [req[r] EXCEPT !.info.db_exists = art.db], "info_tar")
    /\ UNCHANGED <<marker, proc, child, thread, log_buffer, log_file, hist, nbuilds, nlaunch, nreq, art>>

St_InfoTar(r) ==
    /\ req[r].op = "status" /\ req[r].pc = "info_tar"
    /\ Goto(r, [req[r] EXCEPT !.info.tar_exists = art.tar], "db_exists")
    /\ UNCHANGED <<marker, proc, child, thread, log_buffer, log_file, hist, nbuilds, nlaunch, nreq, art>>

\* line 64: if db_file.exists()
St_DbExists(r) ==
    /\ req[r].op = "status" /\ req[r].pc = "db_exists"
    /\ Goto(r, req[r], IF art.db THEN "db_stat" ELSE "tar_exists")
    /\ UNCHANGED <<marker, proc, child, thread, log_buffer, log_file, hist, nbuilds, nlaunch, nreq, art>>

\* lines 65-67: db_file.stat(); FileNotFoundError is not caught (a 500).
St_DbStat(r) ==
    /\ req[r].op = "status" /\ req[r].pc = "db_stat"
    /\ IF art.db
       THEN Goto(r, [req[r] EXCEPT !.info.db_size = TRUE], "tar_exists")
       ELSE Return(r, req[r], 500, "unhandled", NoPid, 0)
    /\ UNCHANGED <<marker, proc, child, thread, log_buffer, log_file, hist, nbuilds, nlaunch, nreq, art>>

\* line 69: if db_tar.exists()
St_TarExists(r) ==
    /\ req[r].op = "status" /\ req[r].pc = "tar_exists"
    /\ Goto(r, req[r], IF art.tar THEN "tar_stat" ELSE "meta_exists")
    /\ UNCHANGED <<marker, proc, child, thread, log_buffer, log_file, hist, nbuilds, nlaunch, nreq, art>>

\* lines 70-71: db_tar.stat(); FileNotFoundError is not caught (a 500).
St_TarStat(r) ==
    /\ req[r].op = "status" /\ req[r].pc = "tar_stat"
    /\ IF art.tar
       THEN Goto(r, [req[r] EXCEPT !.info.tar_size = TRUE], "meta_exists")
       ELSE Return(r, req[r], 500, "unhandled", NoPid, 0)
    /\ UNCHANGED <<marker, proc, child, thread, log_buffer, log_file, hist, nbuilds, nlaunch, nreq, art>>

\* line 73: if metadata_file.exists()
St_MetaExists(r) ==
    /\ req[r].op = "status" /\ req[r].pc = "meta_exists"
    /\ Goto(r, req[r], IF art.meta # "absent" THEN "meta_read" ELSE "respond")
    /\ UNCHANGED <<marker, proc, child, thread, log_buffer, log_file, hist, nbuilds, nlaunch, nreq, art>>

\* lines 74-78: open and json.load; every exception is passed over.
St_MetaRead(r) ==
    /\ req[r].op = "status" /\ req[r].pc = "meta_read"
    /\ Goto(r, [req[r] EXCEPT !.info.metadata = (art.meta = "json")], "respond")
    /\ UNCHANGED <<marker, proc, child, thread, log_buffer, log_file, hist, nbuilds, nlaunch, nreq, art>>

\* lines 142-150: format the sizes, answer 200.
St_Respond(r) ==
    /\ req[r].op = "status" /\ req[r].pc = "respond"
    /\ Return(r, req[r], 200, "status", req[r].st.pid, 0)
    /\ UNCHANGED <<marker, proc, child, thread, log_buffer, log_file, hist, nbuilds, nlaunch, nreq, art>>

\* The artifacts are written by the build script and removed by hand: a
\* file of OUTPUT_DIR appears or disappears.
ArtifactDb ==
    /\ art' = [art EXCEPT !.db = ~@]
    /\ UNCHANGED <<marker, proc, child, thread, log_buffer, log_file, hist, req, resp, nbuilds, nlaunch, nreq>>

ArtifactTar ==
    /\ art' = [art EXCEPT !.tar = ~@]
    /\ UNCHANGED <<marker, proc, child, thread, log_buffer, log_file, hist, req, resp, nbuilds, nlaunch, nreq>>

\* metadata.json: absent, well-formed JSON, or content json.load rejects.
ArtifactMeta(m) ==
    /\ m # art.meta
    /\ art' = [art EXCEPT !.meta = m]
    /\ UNCHANGED <<marker, proc, child, thread, log_buffer, log_file, hist, req, resp, nbuilds, nlaunch, nreq>>

\* ------------------------------------------------------------ specification
Next ==
    \/ \E p \in PIDs : ExtLaunch(p)
    \/ \E p \in PIDs, k \in {"pid", "garbage"} : ScriptWriteMarker(p, k)
    \/ \E b \in Builds : ChildEmit(b)
    \/ \E p \in PIDs, rc \in ExitCodes \cup {0 - SIGTERM}, c \in BOOLEAN : ScriptExit(p, rc, c)
    \/ \E b \in Builds : T_Clear(b)
    \/ \E b \in Builds : T_StartMarker(b)
    \/ \E b \in Builds, ok \in BOOLEAN : T_Popen(b, ok)
    \/ \E b \in Builds : T_ReadLine(b)
    \/ \E b \in Builds, ok \in BOOLEAN : T_WriteFile(b, ok)
    \/ \E b \in Builds : T_Wait(b)
    \/ \E b \in Builds : T_Final(b)
    \/ \E b \in Builds : T_Except(b)
    \/ \E r \in Reqs : B_Probe(r)
    \/ \E r \in Reqs : B_Exists(r)
    \/ \E r \in Reqs : B_Unlink(r)
    \/ \E r \in Reqs : B_Spawn(r)
    \/ \E r \in Reqs : S_Probe(r)
    \/ \E r \in Reqs : S_Kill(r)
    \/ \E r \in Reqs : S_Append(r)
    \/ \E r \in Reqs : C_Probe(r)
    \/ \E r \in Reqs : C_Exists(r)
    \/ \E r \in Reqs : C_Unlink(r)
    \/ \E r \in Reqs, n \in LinesArgs : L_Snapshot(r, n)
    \/ \E r \in Reqs, ok \in BOOLEAN : L_File(r, ok)
    \/ \E r \in Reqs : L_Total(r)
    \/ \E r \in Reqs : St_Probe(r)
    \/ \E r \in Reqs : St_InfoDb(r)
    \/ \E r \in Reqs : St_InfoTar(r)
    \/ \E r \in Reqs : St_DbExists(r)
    \/ \E r \in Reqs : St_DbStat(r)
    \/ \E r \in Reqs : St_TarExists(r)
    \/ \E r \in Reqs : St_TarStat(r)
    \/ \E r \in Reqs : St_MetaExists(r)
    \/ \E r \in Reqs : St_MetaRead(r)
    \/ \E r \in Reqs : St_Respond(r)

Spec == Init /\ [][Next]_vars

\* The status handler against the files it reads: OUTPUT_DIR changes under
\* it, and LOCK_FILE is in any state a script may have left it in.
StatusMarkers ==
    {NoMarker,
     [kind |-> "garbage", pid |-> ExtPid, owner |-> "own"],
     [kind |-> "pid", pid |-> ExtPid, owner |-> "own"]}

InitStatus ==
    /\ marker \in StatusMarkers
    /\ proc = [p \in PIDs |-> NoProc]
    /\ child = [b \in Builds |-> NoChild]
    /\ thread = [b \in Builds |-> NoThread]
    /\ log_buffer = <<>>
    /\ log_file = OldLogFile
    /\ hist = <<>>
    /\ req = [r \in Reqs |-> IdleReq]
    /\ resp = NoResp
    /\ nbuilds = 0
    /\ nlaunch = 0
    /\ nreq = 0
    /\ art \in [db : BOOLEAN, tar : BOOLEAN, meta : {"absent", "json", "bad"}]

NextStatus ==
    \/ \E r \in Reqs : St_Probe(r)
    \/ \E r \in Reqs : St_InfoDb(r)
    \/ \E r \in Reqs : St_InfoTar(r)
    \/ \E r \in Reqs : St_DbExists(r)
    \/ \E r \in Reqs : St_DbStat(r)
    \/ \E r \in Reqs : St_TarExists(r)
    \/ \E r \in Reqs : St_TarStat(r)
    \/ \E r \in Reqs : St_MetaExists(r)
    \/ \E r \in Reqs : St_MetaRead(r)
    \/ \E r \in Reqs : St_Respond(r)
    \/ ArtifactDb
    \/ ArtifactTar
    \/ \E m \in {"absent", "json", "bad"} : ArtifactMeta(m)
    \/ \E p \in PIDs : ExtLaunch(p)
    \/ \E p \in PIDs, rc \in ExitCodes, c \in BOOLEAN : ScriptExit(p, rc, c)

SpecStatus == InitStatus /\ [][NextStatus]_vars

\* ================================================================ claims
ActiveBuilds == {b \in Builds : thread[b].pc \notin {"unused", "done"}}
Alive(pid) == pid \in PIDs /\ proc[pid].owner # "none"
Returns(r) == req[r].pc # "idle" /\ req'[r].pc = "idle"
LastLines(s, k) == SubSeq(s, Len(s) - k + 1, Len(s))

\* C1: at most one build execution unit (a run_build_async thread with its
\* child) is active at a time, whatever the interleaving of the StartBuild
\* requests and of the script's creation of the marker.
C1_AtMostOneActiveBuild == Cardinality(ActiveBuilds) <= 1

\* C2: StartBuild when the probed state is running or stale answers 409 with
\* the pid and is over: the log buffer and the durable log file are as they
\* were and no build thread or child process has been started.
C2_RefusedStartChangesNothing ==
    [][\A r \in Reqs :
        (B_Probe(r) /\ get_build_status(marker).status \in {"running", "stale_lock"})
        => /\ req'[r].pc = "idle"
           /\ resp'.op = "build" /\ resp'.code = 409 /\ resp'.rpid = marker.pid
           /\ log_buffer' = log_buffer /\ log_file' = log_file
           /\ thread' = thread /\ proc' = proc /\ child' = child
           /\ nbuilds' = nbuilds]_vars

\* C2 witness: a build was refused on a stale lock while the buffer held the
\* lines of the build that left the lock behind.
C2_Witness ==
    /\ resp.op = "build" /\ resp.code = 409 /\ resp.probed = "stale_lock"
    /\ log_buffer # <<>>
    /\ marker.kind = "pid" /\ resp.rpid = marker.pid /\ ~Alive(marker.pid)

\* C3: StartBuild when the probed state is error refuses: a handler that has
\* probed error neither deletes the log file nor starts a build thread.
C3_ErrorProbeRefuses ==
    [][\A r \in Reqs :
        (req[r].op = "build" /\ req[r].st.status = "error")
        => ~B_Unlink(r) /\ ~B_Spawn(r)]_vars

\* C4: once the thread of a build whose child has exited is finished (and no
\* other build has been started), the buffer is not empty, its last line is
\* that build's completion marker and it holds that marker once.
C4_EndsInCompletionMarker ==
    \A b \in Builds :
        (/\ thread[b].pc = "done" /\ thread[b].outcome = "completed"
         /\ \A c \in Builds \ {b} : thread[c].pc = "unused")
        => /\ log_buffer # <<>>
           /\ log_buffer[Len(log_buffer)] = completion_line(b, thread[b].rc)
           /\ Cardinality({i \in DOMAIN log_buffer :
                              log_buffer[i] = completion_line(b, thread[b].rc)}) = 1

\* C5: ClearLock never deletes the marker at a moment when the marker names
\* a process that is alive.
C5_NeverRemovesLiveLock ==
    [][\A r \in Reqs :
        (C_Unlink(r) /\ marker.kind = "pid" /\ Alive(marker.pid))
        => marker' = marker]_vars

\* The lock guards nothing: there is no marker, or no process has its pid.
TrulyStaleOrIdle(m) == m.kind = "absent" \/ (m.kind = "pid" /\ ~Alive(m.pid))

\* C6 as stated: ClearLock when the state is running is refused with 409 and
\* leaves the marker; when the state is stale or idle it succeeds, leaves no
\* marker, and a Check made right afterwards reports idle.
C6_ClearLockOutcome ==
    [][\A r \in Reqs :
        /\ (C_Probe(r) /\ get_build_status(marker).status = "running")
           => resp'.op = "clear" /\ resp'.code = 409 /\ marker' = marker
        /\ (/\ req[r].op = "clear" /\ Returns(r)
            /\ req[r].st.status \in {"stale_lock", "idle"}
            /\ TrulyStaleOrIdle(marker))
           => /\ resp'.code = 200
              /\ marker'.kind = "absent"
              /\ get_build_status(marker').status = "idle"]_vars

\* C6 amended: ClearLock when the state is running is refused with 409 and
\* leaves the marker; in any other state it either succeeds, leaves no marker
\* and a Check made right afterwards reports idle, or LOCK_FILE.unlink()
\* raises and it answers 500, the marker being left as it was.
C6_ClearLockOutcomeAmended ==
    [][\A r \in Reqs :
        /\ (C_Probe(r) /\ get_build_status(marker).status = "running")
           => resp'.op = "clear" /\ resp'.code = 409 /\ marker' = marker
                /\ req'[r].pc = "idle"
        /\ (req[r].op = "clear" /\ Returns(r))
           => \/ /\ resp'.code = 200
                 /\ marker'.kind = "absent"
                 /\ get_build_status(marker').status = "idle"
              \/ /\ resp'.code = 500
                 /\ os_unlink(marker) # "ok"
                 /\ marker' = marker]_vars

\* C6 witness: a stale lock (its process is gone) has just been cleared.
C6_Witness ==
    /\ resp.op = "clear" /\ resp.code = 200 /\ resp.msg = "cleared"
    /\ resp.probed = "stale_lock"
    /\ marker.kind = "absent"
    /\ get_build_status(marker).status = "idle"

\* C7: StopBuild when the probed state is not running answers failure and
\* sends no signal; when it is running the handler calls os.kill(pid,
\* SIGTERM) once, for the pid read from the marker, and then answers
\* whatever the child does.
C7_StopSignalsOnce ==
    [][\A r \in Reqs :
        /\ (S_Probe(r) /\ get_build_status(marker).status # "running")
           => /\ req'[r].pc = "idle"
              /\ resp'.op = "stop" /\ resp'.code = 409 /\ resp'.nsig = 0
              /\ proc' = proc
        /\ (S_Probe(r) /\ get_build_status(marker).status = "running")
           => req'[r].pc = "kill" /\ req'[r].nsig = 0 /\ req'[r].st.pid = marker.pid
        /\ (req[r].op = "stop" /\ Returns(r))
           => /\ resp'.nsig = 1
              /\ resp'.sigpid = req[r].st.pid
        /\ (S_Kill(r) /\ os_kill(req[r].st.pid) = "ok")
           => /\ proc'[req[r].st.pid].term
              /\ \A p \in PIDs \ {req[r].st.pid} : proc'[p] = proc[p]]_vars

\* C7 witness: the stop request has been answered with success while the
\* process it signalled is still running.
C7_Witness ==
    /\ resp.op = "stop" /\ resp.code = 200 /\ resp.nsig = 1
    /\ marker.kind = "pid" /\ marker.pid = resp.sigpid
    /\ proc[resp.sigpid].owner = "own" /\ proc[resp.sigpid].term
    /\ \E b \in Builds : thread[b].pc = "stream" /\ b = resp.sigpid

\* C8: after more than MAX_LOG_LINES appends since the last clear, Logs with
\* lines = MAX_LOG_LINES returns the last MAX_LOG_LINES appended lines in the
\* order of their arrival.
C8_FifoEviction ==
    [][\A r \in Reqs :
        (L_Snapshot(r, MAX_LOG_LINES) /\ Len(hist) > MAX_LOG_LINES)
        => req'[r].logs = LastLines(hist, MAX_LOG_LINES)]_vars

\* C8 witness: Logs(MAX_LOG_LINES) has taken its snapshot after an eviction.
C8_Witness ==
    \E r \in Reqs :
        /\ req[r].op = "logs" /\ req[r].lines = MAX_LOG_LINES
        /\ Len(hist) > MAX_LOG_LINES
        /\ req[r].logs = LastLines(hist, MAX_LOG_LINES)
        /\ req[r].logs # SubSeq(hist, 1, MAX_LOG_LINES)

\* C9: for every lines >= 0, 0 included, and a buffer that is not empty,
\* Logs returns the last min(lines, MAX_LOG_LINES, length) lines of the
\* buffer and leaves the buffer as it was.
C9_SnapshotSize ==
    [][\A r \in Reqs : \A n \in LinesArgs :
        (L_Snapshot(r, n) /\ n >= 0 /\ log_buffer # <<>>)
        => /\ req'[r].logs =
                LastLines(log_buffer, Min(n, Min(MAX_LOG_LINES, Len(log_buffer))))
           /\ log_buffer' = log_buffer]_vars

\* C10: Check reports idle iff there is no marker, error iff the marker is no
\* integer, running iff the marker is the pid of a live process, and stale
\* iff it is a pid no process has.
C10_ProbeClassifies ==
    LET st == get_build_status(marker)
    IN  /\ st.status = "idle" <=> marker.kind = "absent"
        /\ st.status = "error" <=> marker.kind = "garbage"
        /\ st.status = "running" <=> (marker.kind = "pid" /\ Alive(marker.pid))
        /\ st.status = "stale_lock" <=> (marker.kind = "pid" /\ ~Alive(marker.pid))

\* C11: Status always succeeds: whatever the marker file and the artifact
\* files hold, and however the files are created or deleted while the call
\* runs, a Status response is a 200 carrying the probed build state; an
\* error is embedded as an "error" state and never raised.
C11_StatusAlwaysSucceeds ==
    resp.op = "status" => resp.code = 200 /\ resp.msg = "status"

\* C12: the completion marker a build appends reports success iff its child
\* exited with code 0, and otherwise failure with exactly the child's exit
\* code; and when the child the marker file names exits, the probe reports
\* idle if the script removed the marker and a stale lock if it did not.
C12_CompletionReportsExit ==
    [][\A b \in Builds :
        /\ T_Final(b) =>
             LET x == hist'[Len(hist')] IN
             /\ x.b = b
             /\ x.kind \in {"ok", "fail"}
             /\ x.kind = "ok" <=> child[b].rc = 0
             /\ x.kind = "fail" => x.n = child[b].rc
        /\ (/\ child[b].st = "alive" /\ child'[b].st = "exited"
            /\ marker.kind = "pid" /\ marker.pid = b) =>
             (get_build_status(marker).status)' =
                 IF marker'.kind = "absent" THEN "idle" ELSE "stale_lock"
      ]_vars

C12_Witness ==
    \E b \in Builds :
        /\ thread[b].outcome = "completed"
        /\ child[b].rc = 3
        /\ hist # <<>> /\ hist[Len(hist)] = Line("fail", b, 3)
        /\ marker.kind = "pid" /\ marker.pid = b
        /\ get_build_status(marker).status = "stale_lock"

\* C13: a failure to write a line to the durable log file does not abort
\* the stream: the step of the build thread that leaves the write without a
\* new line in the file goes back to reading the child's output, from where
\* the thread waits for the child and appends the completion marker.
C13_WriteFailureKeepsStreaming ==
    [][\A b \in Builds :
        (/\ thread[b].pc = "write"
         /\ thread'[b] # thread[b]
         /\ log_file' = log_file) =>
            /\ thread'[b].pc = "stream"
            /\ thread'[b].outcome # "error"
      ]_vars

\* C14: the durable log file mirrors the log buffer: while one build is the
\* only one there has been and no write has failed, the lines of the file
\* are the lines appended to the buffer since that build cleared it (start
\* marker, child output, completion marker, stop-requested line), in the
\* same order.
C14_FileMirrorsBuffer ==
    \A b \in Builds :
        (/\ Starting = {}
         /\ \A c \in Builds \ {b} : thread[c].pc = "unused"
         /\ thread[b].pc \notin {"unused", "clear", "write", "except"}
         /\ thread[b].outcome # "error") =>
            log_file.lines = hist

\* C15: child output order is preserved and appends are visible: the output
\* lines of one child stand in the buffer in the order the child produced
\* them, and a Logs call that begins while the buffer holds appended lines
\* (not cleared, not evicted) answers with the most recent lines of the
\* buffer in their order, the line appended last among them.
C15_OrderAndVisibility ==
    [][/\ \A i, j \in 1..Len(log_buffer') :
            (/\ i < j
             /\ log_buffer'[i].kind = "out" /\ log_buffer'[j].kind = "out"
             /\ log_buffer'[i].b = log_buffer'[j].b) =>
                log_buffer'[i].n < log_buffer'[j].n
       /\ \A r \in Reqs : \A n \in LinesArgs :
            (L_Snapshot(r, n) /\ log_buffer # <<>>) =>
                /\ req'[r].logs # <<>>
                /\ req'[r].logs = LastLines(log_buffer, Len(req'[r].logs))
      ]_vars

\* C16: an error during spawn or streaming is absorbed: the step of the
\* build thread out of its except clause appends exactly one error marker,
\* ends the thread and touches no request thread and no response; a thread
\* that ended so takes no further step and no later line (no completion
\* marker in particular) is appended for its build.
C16_ErrorAbsorbed ==
    [][\A b \in Builds :
        /\ (thread[b].pc = "except" /\ thread'[b] # thread[b]) =>
              /\ hist' = Append(hist, Line("error", b, 0))
              /\ thread'[b].pc = "done" /\ thread'[b].outcome = "error"
              /\ req' = req /\ resp' = resp
        /\ thread[b].outcome = "error" =>
              /\ thread'[b] = thread[b]
              /\ Len(hist') > Len(hist) => hist'[Len(hist')].b # b
      ]_vars

\* A Logs request is being answered with the error marker of a build whose
\* thread has ended.
C16_Witness ==
    \E b \in Builds, r \in Reqs :
        /\ thread[b].pc = "done" /\ thread[b].outcome = "error"
        /\ req[r].op = "logs" /\ req[r].pc = "total"
        /\ \E i \in 1..Len(req[r].logs) : req[r].logs[i] = Line("error", b, 0)

\* C17: an accepted StartBuild clears the buffer, then deletes the prior log
\* file, then appends the start marker, then spawns the child: the file is
\* deleted when the buffer is already empty, at the spawn the buffer holds
\* exactly the start marker of the build, and a Logs call that begins after
\* the start marker of the latest build was appended finds only lines of
\* that build in the buffer and in the file.
C17_StartOrder ==
    [][/\ (log_file.exists /\ ~log_file'.exists) => log_buffer = <<>>
       /\ \A b \in Builds :
            (thread[b].pc = "popen" /\ thread'[b].pc = "stream") =>
                log_buffer = <<Line("start", b, 0)>>
       /\ \A r \in Reqs : \A n \in LinesArgs : \A b \in Builds :
            (/\ L_Snapshot(r, n)
             /\ nbuilds = b
             /\ thread[b].pc \notin {"unused", "clear", "start"}) =>
                \A x \in {log_buffer[i] : i \in 1..Len(log_buffer)}
                         \cup {log_file.lines[i] : i \in 1..Len(log_file.lines)} :
                    x.kind = "stop" \/ x.b = b
      ]_vars

\* C18: the web application changes the marker file through ClearLock only:
\* every step that creates, rewrites or deletes the marker is the unlink of
\* ClearLock or a step of a build script; the probes, Status, Logs,
\* StartBuild, StopBuild and the build threads leave it as it is.
C18_MarkerOnlyByClearLock ==
    [][marker' # marker =>
          \/ \E r \in Reqs : C_Unlink(r)
          \/ \E p \in PIDs : ExtLaunch(p)
          \/ \E p \in PIDs, kind \in {"pid", "garbage"} : ScriptWriteMarker(p, kind)
          \/ \E p \in PIDs, rc \in ExitCodes \cup {0 - SIGTERM}, c \in BOOLEAN :
                ScriptExit(p, rc, c)
      ]_vars

\* The stale marker of a finished build is still there after the build
\* thread has ended and a StopBuild has been refused.
C18_Witness ==
    \E b \in Builds :
        /\ thread[b].pc = "done"
        /\ marker.kind = "pid" /\ marker.pid = b /\ ~Alive(b)
        /\ resp.op = "stop" /\ resp.probed = "stale_lock"

\* C19: when the buffer is empty and the log file exists, Logs(lines)
\* returns the last min(lines, number of lines of the file) lines of the
\* file, in file order; when the buffer is not empty the file is not
\* consulted; when the file is absent or cannot be read, the list is empty.
C19_FileFallback ==
    [][\A r \in Reqs :
        /\ \A n \in LinesArgs :
              (L_Snapshot(r, n) /\ log_buffer # <<>>) => req'[r].pc # "file"
        /\ (L_File(r, TRUE) /\ log_file.exists /\ req[r].lines >= 0) =>
              req'[r].logs = LastLines(log_file.lines,
                                       Min(req[r].lines, Len(log_file.lines)))
        /\ (L_File(r, FALSE) \/ (L_File(r, TRUE) /\ ~log_file.exists)) =>
              req'[r].logs = <<>>
      ]_vars

\* C20: StopBuild appends its stop-requested line only after the signal
\* was delivered: a stop line is appended by a StopBuild that has sent its
\* signal and answers 200 in that step, a signal that fails ends the
\* handler with 404 or 500 at once, and every step that ends a StopBuild
\* with another code than 200 leaves the buffer as it was.
C20_StopLineAfterSignal ==
    [][/\ (Len(hist') > Len(hist) /\ hist'[Len(hist')].kind = "stop") =>
            \E r \in Reqs :
                /\ req[r].op = "stop" /\ req[r].nsig = 1 /\ Returns(r)
                /\ resp'.op = "stop" /\ resp'.code = 200
                /\ hist'[Len(hist')].n = req[r].sigpid
       /\ \A r \in Reqs :
            /\ (S_Kill(r) /\ os_kill(req[r].st.pid) # "ok") =>
                  Returns(r) /\ resp'.code \in {404, 500}
            /\ (Returns(r) /\ req[r].op = "stop" /\ resp'.code # 200) =>
                  log_buffer' = log_buffer /\ hist' = hist
            /\ (S_Probe(r) /\ stop_refused(get_build_status(marker))) =>
                  log_buffer' = log_buffer /\ hist' = hist
      ]_vars

\* A StopBuild whose target had exited answered 404 while the buffer held
\* the lines of the build, and no stop line is among them.
C20_Witness ==
    /\ resp.op = "stop" /\ resp.code = 404 /\ resp.nsig = 1
    /\ hist # <<>>
    /\ \A i \in 1..Len(hist) : hist[i].kind # "stop"


====
